---- MODULE Spec2Model ----
(***************************************************************************)
(* A model of the cinode blobstore package: the blob storage port, the     *)
(* hash-validated blob pipeline (createHashValidatedBlobFromReaderGenerator)*)
(* and the directory blob writer (DirBlobWriter).                          *)
(***************************************************************************)
EXTENDS Integers, Sequences, FiniteSets, TLC

(***************************************************************************)
(* Bounds of the model.                                                    *)
(***************************************************************************)
\* longest plaintext handed to the pipeline
MaxLen == 1
\* staged writers ever opened on the storage
MaxWriters == 3

(***************************************************************************)
(* State.                                                                  *)
(***************************************************************************)
VARIABLES
    storage,    \* the committed blobs: blob id -> content
    writers,    \* every staged writer opened so far, by handle
    pl,         \* the locals of the pipeline call in progress
    runs,       \* what each finished pipeline call returned
    lastRead,   \* what NewBlobReader returned, when the latest call was a read
    dir,        \* the DirBlobWriter: its entries and what Finalize returned
    file        \* the FileBlobWriter: its buffer, its blocks and what Finalize returned

vars == <<storage, writers, pl, runs, lastRead, dir, file>>

(***************************************************************************)
(* Bytes, hashing, hex encoding, the cipher.                               *)
(***************************************************************************)
Alphabet == {97, 98}

RECURSIVE SeqsUpTo(_, _)
SeqsUpTo(S, n) ==
    IF n = 0 THEN {<<>>}
    ELSE LET shorter == SeqsUpTo(S, n - 1)
         IN  shorter \cup {Append(s, x) : s \in {t \in shorter : Len(t) = n - 1}, x \in S}

Plaintexts == SeqsUpTo(Alphabet, MaxLen)

\* the error values of the package, and nil
ErrBIDCollision == "ErrBIDCollision"
ErrBIDNotFound == "ErrBIDNotFound"
ErrIO == "ErrIO"
ErrEncryptor == "ErrInsufficientKeySource"
nil == "nil"

\* the validation method tag written in front of the ciphertext
validationMethodHash == 1

\* hasher: write-then-sum digest of a byte sequence, two bytes wide here: the
\* fold h := 31 * h + b + 1 from 7 over the bytes b, modulo 2^15, summed by halves
RECURSIVE PowMod(_, _)
PowMod(b, k) ==
    IF k = 0 THEN 1
    ELSE LET half == PowMod(b, k \div 2)
         IN  IF k % 2 = 0 THEN (half * half) % 32768 ELSE (((half * half) % 32768) * b) % 32768

RECURSIVE HashRange(_, _, _)
HashRange(s, lo, hi) ==
    IF lo > hi THEN 0
    ELSE IF lo = hi THEN ((s[lo] + 1) * PowMod(31, Len(s) - lo)) % 32768
    ELSE LET mid == (lo + hi) \div 2
         IN  (HashRange(s, lo, mid) + HashRange(s, mid + 1, hi)) % 32768

HashSum(s) ==
    LET h == (7 * PowMod(31, Len(s)) + HashRange(s, 1, Len(s))) % 32768
    IN  <<h \div 256, h % 256>>

\* hex.EncodeToString: two hex digits per byte
EncodeToString(s) ==
    [i \in 1..(2 * Len(s)) |-> IF i % 2 = 1 THEN s[(i + 1) \div 2] \div 16 ELSE s[i \div 2] % 16]

\* the printable key createEncryptor returns: a cipher tag and the key material
KeyString(keySource) == EncodeToString(<<1>> \o keySource)

\* the stream encryptor: byte i of the output depends on the key and on i
Encrypt(keySource, data) ==
    [i \in 1..Len(data) |-> (data[i] + keySource[2] + 13 * i) % 256]

\* what io.Copy takes from a reader that fails after f bytes, short of the
\* whole content (f = -1: no failure)
NoFault == 0 - 1
Faults(P) == {NoFault} \cup (0..(Len(P) - 1))
ReadAll(P, f) == IF f = NoFault THEN P ELSE SubSeq(P, 1, f)

\* the three values the pipeline computes before it touches the storage

\* (a key source salted per call instead of derived from the content alone)
KeySourceOf_Salted(P, f1) == HashSum(ReadAll(P, f1) \o <<Len(runs)>>)
KeySourceOf(P, f1) == HashSum(ReadAll(P, f1))

EncryptedOf(P, f1, f2) == Encrypt(KeySourceOf(P, f1), ReadAll(P, f2))

\* (the id taken from the hash of the plaintext instead of the ciphertext)
BlobIdOf_FromPlaintext(P, f1, f2) == EncodeToString(KeySourceOf(P, f1))
BlobIdOf(P, f1, f2) == EncodeToString(HashSum(EncryptedOf(P, f1, f2)))

Last(s) == s[Len(s)]

(***************************************************************************)
(* The blob storage port: NewBlobWriter, Write, Finalize, Cancel,          *)
(* NewBlobReader.                                                          *)
(***************************************************************************)
\* a fresh staged writer for blobId; owner is the pipeline call that opened
\* it, 0 for a direct client of the port; log is the history of its calls and
\* stored tells whether its Finalize added a blob to the storage
NewBlobWriter(blobId, owner) ==
    [bid |-> blobId, staged |-> <<>>, status |-> "open", owner |-> owner, log |-> <<>>,
     stored |-> FALSE]

\* Write accumulates bytes in the staged writer
WriterWrite(w, data) ==
    [w EXCEPT !.staged = w.staged \o data, !.log = Append(w.log, "Write")]

\* a Write that fails after taking n bytes
WriterWriteFail(w, data, n) ==
    [w EXCEPT !.staged = w.staged \o SubSeq(data, 1, n), !.log = Append(w.log, "WriteErr")]

\* (a Finalize that takes any content for an id that holds some)
FinalizeErr_NoCollisionCheck(st, w) == nil

\* the error Finalize returns for staged content w.staged under w.bid
FinalizeErr(st, w) ==
    IF w.bid \in DOMAIN st /\ st[w.bid] # w.staged THEN ErrBIDCollision ELSE nil

\* (a Finalize that replaces what the id holds)
FinalizeStorage_Overwrite(st, w) ==
    [id \in DOMAIN st \cup {w.bid} |-> IF id = w.bid THEN w.staged ELSE st[id]]

\* the storage after Finalize: a new blob, or unchanged (dedup, collision)
FinalizeStorage(st, w) ==
    IF w.bid \in DOMAIN st THEN st
    ELSE [id \in DOMAIN st \cup {w.bid} |-> IF id = w.bid THEN w.staged ELSE st[id]]

\* the staged writer after Finalize; one whose Finalize failed is left to Cancel
WriterFinalize(st, w) ==
    IF FinalizeErr(st, w) = nil
    THEN [w EXCEPT !.status = "finalized", !.log = Append(w.log, "Finalize"),
                   !.stored = (FinalizeStorage(st, w) # st)]
    ELSE [w EXCEPT !.status = "failed", !.log = Append(w.log, FinalizeErr(st, w))]

\* Cancel discards the staged bytes
WriterCancel(w) ==
    [w EXCEPT !.staged = <<>>, !.status = "cancelled", !.log = Append(w.log, "Cancel")]

\* NewBlobReader: the whole committed content, or ErrBIDNotFound
NewBlobReader(st, blobId) ==
    IF blobId \in DOMAIN st
    THEN [err |-> nil, data |-> st[blobId]]
    ELSE [err |-> ErrBIDNotFound, data |-> <<>>]

(***************************************************************************)
(* createHashValidatedBlobFromReaderGenerator, one storage call per step.  *)
(***************************************************************************)
\* a behaviour holds two calls of the pipeline: the claims about it compare
\* two store operations
StoreOperations == <<"first", "second">>

Idle ==
    [pc |-> "idle", P |-> <<>>, f1 |-> NoFault, f2 |-> NoFault,
     encryptedBuffer |-> <<>>, bid |-> <<>>, key |-> <<>>, err |-> nil, blobWriter |-> 0]

\* the named results (bid, key, err) as the call returns them
Returned(p) ==
    [P |-> p.P, fault |-> (p.f1 # NoFault \/ p.f2 # NoFault), bid |-> p.bid, key |-> p.key,
     err |-> p.err, blobWriter |-> p.blobWriter]

\* (a return that leaves the staged writer open)
DeferredCancel_Missing(w, err) == w

\* the deferred function: Cancel the writer when the call returns an error
DeferredCancel(w, err) == IF err # nil THEN WriterCancel(w) ELSE w

\* the call returns: the deferred function runs, the results reach the caller
Return(p) ==
    /\ runs' = Append(runs, Returned(p))
    /\ pl' = Idle
    /\ writers' = IF p.blobWriter = 0 THEN writers
                  ELSE [writers EXCEPT ![p.blobWriter] = DeferredCancel(@, p.err)]

\* lines 16-32: hash the plaintext, create the encryptor, encrypt, hash the
\* ciphertext.  The errors of both io.Copy calls are dropped.
PipelineCall(P, f1, f2, encErr) ==
    /\ pl.pc = "idle"
    /\ Len(runs) < Len(StoreOperations)
    /\ IF encErr # nil
       THEN /\ runs' = Append(runs, Returned([Idle EXCEPT !.P = P, !.f1 = f1, !.f2 = f2,
                                                           !.err = encErr]))
            /\ UNCHANGED pl
       ELSE /\ pl' = [Idle EXCEPT !.pc = "NewBlobWriter", !.P = P, !.f1 = f1, !.f2 = f2,
                                  !.encryptedBuffer = EncryptedOf(P, f1, f2),
                                  !.key = KeyString(KeySourceOf(P, f1)),
                                  !.bid = BlobIdOf(P, f1, f2)]
            /\ UNCHANGED runs
    /\ UNCHANGED <<storage, writers, lastRead, dir, file>>

\* lines 35-38: storage.NewBlobWriter(bid)
PipelineNewBlobWriter(ioErr) ==
    /\ pl.pc = "NewBlobWriter"
    /\ IF ioErr # nil
       THEN /\ runs' = Append(runs, Returned([pl EXCEPT !.err = ioErr]))
            /\ pl' = Idle
            /\ UNCHANGED writers
       ELSE /\ writers' = Append(writers, NewBlobWriter(pl.bid, Len(runs) + 1))
            /\ pl' = [pl EXCEPT !.pc = "WriteTag", !.blobWriter = Len(writers) + 1]
            /\ UNCHANGED runs
    /\ UNCHANGED <<storage, lastRead, dir, file>>

\* lines 44-46: blobWriter.Write([]byte{validationMethodHash})
PipelineWriteTag(ioErr) ==
    /\ pl.pc = "WriteTag"
    /\ IF ioErr # nil
       THEN /\ writers' = [writers EXCEPT ![pl.blobWriter] =
                              WriterWriteFail(@, <<validationMethodHash>>, 0)]
            /\ pl' = [pl EXCEPT !.pc = "Return", !.err = ioErr]
       ELSE /\ writers' = [writers EXCEPT ![pl.blobWriter] =
                              WriterWrite(@, <<validationMethodHash>>)]
            /\ pl' = [pl EXCEPT !.pc = "Copy"]
    /\ UNCHANGED <<storage, runs, lastRead, dir, file>>

\* lines 47-49: io.Copy(blobWriter, &encryptedBuffer); an empty buffer is
\* copied without any Write
PipelineCopy(ioErr, n) ==
    /\ pl.pc = "Copy"
    /\ IF pl.encryptedBuffer = <<>>
       THEN /\ pl' = [pl EXCEPT !.pc = "Finalize"]
            /\ UNCHANGED writers
       ELSE IF ioErr # nil
       THEN /\ n < Len(pl.encryptedBuffer)
            /\ writers' = [writers EXCEPT ![pl.blobWriter] =
                              WriterWriteFail(@, pl.encryptedBuffer, n)]
            /\ pl' = [pl EXCEPT !.pc = "Return", !.err = ioErr]
       ELSE /\ writers' = [writers EXCEPT ![pl.blobWriter] =
                              WriterWrite(@, pl.encryptedBuffer)]
            /\ pl' = [pl EXCEPT !.pc = "Finalize"]
    /\ UNCHANGED <<storage, runs, lastRead, dir, file>>

\* lines 50-52: blobWriter.Finalize()
PipelineFinalize ==
    /\ pl.pc = "Finalize"
    /\ storage' = FinalizeStorage(storage, writers[pl.blobWriter])
    /\ writers' = [writers EXCEPT ![pl.blobWriter] = WriterFinalize(storage, @)]
    /\ pl' = [pl EXCEPT !.pc = "Return", !.err = FinalizeErr(storage, writers[pl.blobWriter])]
    /\ UNCHANGED <<runs, lastRead, dir, file>>

\* lines 39-43 and 55: the return with its deferred Cancel
PipelineReturn ==
    /\ pl.pc = "Return"
    /\ Return(pl)
    /\ UNCHANGED <<storage, lastRead, dir, file>>

(***************************************************************************)
(* Direct clients of the port: staged writers and readers of other         *)
(* callers, interleaved with the pipeline.                                 *)
(***************************************************************************)
\* what the other callers store: the blobs of "" and of "a", whole or in two
\* Writes, under the id of either
ClientContents ==
    {<<validationMethodHash>>,
     <<validationMethodHash>> \o EncryptedOf(<<97>>, NoFault, NoFault)}
ClientIds == {BlobIdOf(<<97>>, NoFault, NoFault), BlobIdOf(<<>>, NoFault, NoFault)}
ClientChunks == {<<validationMethodHash>>, EncryptedOf(<<97>>, NoFault, NoFault)}

IsPrefix(s, t) == Len(s) <= Len(t) /\ SubSeq(t, 1, Len(s)) = s

\* no read is the latest step
NoRead == [bid |-> <<>>, result |-> [err |-> nil, data |-> <<>>]]

ClientNewBlobWriter(blobId) ==
    /\ Len(writers) < MaxWriters
    /\ writers' = Append(writers, NewBlobWriter(blobId, 0))
    /\ lastRead' = NoRead
    /\ UNCHANGED <<storage, pl, runs, dir, file>>

ClientWrite(h, data) ==
    /\ writers[h].owner = 0
    /\ writers[h].status = "open"
    /\ \E c \in ClientContents : IsPrefix(writers[h].staged \o data, c)
    /\ writers' = [writers EXCEPT ![h] = WriterWrite(@, data)]
    /\ lastRead' = NoRead
    /\ UNCHANGED <<storage, pl, runs, dir, file>>

ClientFinalize(h) ==
    /\ writers[h].owner = 0
    /\ writers[h].status = "open"
    /\ storage' = FinalizeStorage(storage, writers[h])
    /\ writers' = [writers EXCEPT ![h] = WriterFinalize(storage, @)]
    /\ lastRead' = NoRead
    /\ UNCHANGED <<pl, runs, dir, file>>

ClientCancel(h) ==
    /\ writers[h].owner = 0
    /\ writers[h].status \in {"open", "failed"}
    /\ writers' = [writers EXCEPT ![h] = WriterCancel(@)]
    /\ lastRead' = NoRead
    /\ UNCHANGED <<storage, pl, runs, dir, file>>

\* another caller's New, Write(s) and Finalize seen from the pipeline: its
\* staged bytes are its own until its Finalize
ClientStore(blobId, data) ==
    /\ storage' = FinalizeStorage(storage, WriterWrite(NewBlobWriter(blobId, 0), data))
    /\ UNCHANGED <<writers, pl, runs, lastRead, dir, file>>

ClientRead(blobId) ==
    /\ lastRead' = [bid |-> blobId, result |-> NewBlobReader(storage, blobId)]
    /\ UNCHANGED <<storage, writers, pl, runs, dir, file>>

(***************************************************************************)
(* The pipeline as its callers in this package run it: one call, from the  *)
(* first hash to the return, on a storage nobody else writes to and with a *)
(* producer and a backend that do not fail.                                *)
(***************************************************************************)
createHashValidatedBlobFromReaderGenerator(P, st) ==
    LET bid == BlobIdOf(P, NoFault, NoFault)
        encryptedBuffer == EncryptedOf(P, NoFault, NoFault)
        tagged == WriterWrite(NewBlobWriter(bid, 0), <<validationMethodHash>>)
        blobWriter == IF encryptedBuffer = <<>> THEN tagged
                      ELSE WriterWrite(tagged, encryptedBuffer)
    IN  [bid |-> bid,
         key |-> KeyString(KeySourceOf(P, NoFault)),
         err |-> FinalizeErr(st, blobWriter),
         storage |-> FinalizeStorage(st, blobWriter)]

(***************************************************************************)
(* DirBlobWriter.                                                          *)
(***************************************************************************)
\* entries of a directory before it is split
maxSimpleDirEntries == 3

\* the blob type tag of a directory blob
blobTypeSimpleStaticDir == 17

\* the entries a caller adds: a name and the rest of the entry
DirEntries ==
    {[Name |-> <<97>>, Meta |-> 1], [Name |-> <<97>>, Meta |-> 2],
     [Name |-> <<97, 97>>, Meta |-> 1], [Name |-> <<98>>, Meta |-> 1]}

\* Go's < on strings: bytewise, a proper prefix is less
RECURSIVE StringLess(_, _)
StringLess(a, b) ==
    IF b = <<>> THEN FALSE
    ELSE IF a = <<>> THEN TRUE
    ELSE IF Head(a) # Head(b) THEN Head(a) < Head(b)
    ELSE StringLess(Tail(a), Tail(b))

\* (a comparison of the name lengths instead of the names)
Less_ByLength(s, i, j) == Len(s[i].Name) < Len(s[j].Name)

\* sortByName.Less
Less(s, i, j) == StringLess(s[i].Name, s[j].Name)

\* sortByName.Swap
Swap(s, i, j) == [s EXCEPT ![i] = s[j], ![j] = s[i]]

\* sort.Sort on a slice this short: the insertion sort of package sort, which
\* moves element i down while it is Less than the one before it
RECURSIVE SinkDown(_, _)
SinkDown(s, j) ==
    IF j > 1 /\ Less(s, j, j - 1) THEN SinkDown(Swap(s, j, j - 1), j - 1) ELSE s

RECURSIVE InsertionSort(_, _)
InsertionSort(s, i) ==
    IF i > Len(s) THEN s ELSE InsertionSort(SinkDown(s, i), i + 1)

Sort(s) == InsertionSort(s, 2)

\* serializeInt: a length-prefixed integer
serializeInt(n) == <<1, n>>

\* DirEntry.serialize: the name with its length, then the rest of the entry
serialize(entry) == serializeInt(Len(entry.Name)) \o entry.Name \o <<entry.Meta>>

RECURSIVE serializeAll(_)
serializeAll(s) == IF s = <<>> THEN <<>> ELSE serialize(Head(s)) \o serializeAll(Tail(s))

\* the buffer finalizeSimple hands to the pipeline, for entries already sorted
DirBuffer(sorted) ==
    <<blobTypeSimpleStaticDir>> \o serializeInt(Len(sorted)) \o serializeAll(sorted)

NoDirResult ==
    [status |-> "none", added |-> <<>>, buffer |-> <<>>, bid |-> <<>>, key |-> <<>>, err |-> nil]

\* AddEntry: append, return nil
AddEntry(entry) ==
    /\ dir.out.status # "panic"
    /\ Len(dir.entries) <= maxSimpleDirEntries
    /\ dir' = [dir EXCEPT !.entries = Append(@, entry), !.addErr = nil]
    /\ UNCHANGED <<storage, writers, pl, runs, lastRead, file>>

\* finalizeSimple: sort in place, serialize, store through the pipeline
finalizeSimple ==
    LET sorted == Sort(dir.entries)
        r == createHashValidatedBlobFromReaderGenerator(DirBuffer(sorted), storage)
    IN  /\ dir' = [dir EXCEPT !.entries = sorted,
                              !.out = [status |-> "returned", added |-> dir.entries,
                                       buffer |-> DirBuffer(sorted),
                                       bid |-> r.bid, key |-> r.key, err |-> r.err]]
        /\ storage' = r.storage

\* finalizeSplit: panic("Unimplemented: split dir blob")
finalizeSplit ==
    /\ dir' = [dir EXCEPT !.out = [NoDirResult EXCEPT !.status = "panic", !.added = dir.entries]]
    /\ UNCHANGED storage

\* DirBlobWriter.Finalize
DirFinalize ==
    /\ dir.out.status # "panic"
    /\ IF Len(dir.entries) <= maxSimpleDirEntries THEN finalizeSimple ELSE finalizeSplit
    /\ UNCHANGED <<writers, pl, runs, lastRead, file>>

(***************************************************************************)
(* FileBlobWriter.                                                         *)
(***************************************************************************)
\* bytes of one block (16 MiB in the package)
BlockSize == 2

\* a file in this model has up to two full blocks and one byte more
MaxFileLen == 2 * BlockSize + 1

\* the blob type tags of a file stored whole and of the index of a split file
blobTypeSimpleStaticFile == 1
blobTypeSplitStaticFile == 2

FileChunks == SeqsUpTo(Alphabet, BlockSize) \ {<<>>}

NoFileResult ==
    [status |-> "none", bid |-> <<>>, key |-> <<>>, err |-> nil, index |-> <<>>]

NewFile ==
    [buffer |-> <<>>, caps |-> <<>>, written |-> <<>>, err |-> nil, out |-> NoFileResult]

\* (a buffer flushed as soon as it is full)
BufferOverflows_AtBlockSize(buffer) == Len(buffer) >= BlockSize

\* the buffer holds more than one block
BufferOverflows(buffer) == Len(buffer) > BlockSize

\* a blob capability as the index lists it
serializeCapability(c) ==
    serializeInt(Len(c.bid)) \o c.bid \o serializeInt(Len(c.key)) \o c.key

RECURSIVE serializeCapabilities(_)
serializeCapabilities(cs) ==
    IF cs = <<>> THEN <<>>
    ELSE serializeCapability(Head(cs)) \o serializeCapabilities(Tail(cs))

\* the plaintext of the index blob of a split file
IndexBuffer(caps) ==
    <<blobTypeSplitStaticFile>> \o serializeInt(Len(caps)) \o serializeCapabilities(caps)

\* one block of content, stored through the pipeline
StoreBlock(content, st) ==
    createHashValidatedBlobFromReaderGenerator(<<blobTypeSimpleStaticFile>> \o content, st)

\* store full blocks while the buffer holds more than one block
RECURSIVE FlushBlocks(_, _)
FlushBlocks(f, st) ==
    IF f.err # nil \/ ~BufferOverflows(f.buffer) THEN [file |-> f, storage |-> st]
    ELSE LET r == StoreBlock(SubSeq(f.buffer, 1, BlockSize), st)
             rest == SubSeq(f.buffer, BlockSize + 1, Len(f.buffer))
             flushed == IF r.err = nil
                        THEN [f EXCEPT !.buffer = rest,
                                       !.caps = Append(f.caps, [bid |-> r.bid, key |-> r.key])]
                        ELSE [f EXCEPT !.err = r.err]
         IN  FlushBlocks(flushed, r.storage)

\* FileBlobWriter.Write
FileWrite(b) ==
    /\ file.out.status = "none"
    /\ Len(file.written) + Len(b) <= MaxFileLen
    /\ LET r == FlushBlocks([file EXCEPT !.buffer = @ \o b, !.written = @ \o b], storage)
       IN  /\ file' = r.file
           /\ storage' = r.storage
    /\ UNCHANGED <<writers, pl, runs, lastRead, dir>>

\* FileBlobWriter.Finalize
FileFinalize ==
    /\ file.out.status = "none"
    /\ IF file.err # nil
       THEN /\ file' = [file EXCEPT !.out = [NoFileResult EXCEPT !.status = "returned",
                                                                 !.err = file.err]]
            /\ UNCHANGED storage
       ELSE IF file.caps = <<>>
       THEN LET r == StoreBlock(file.buffer, storage)
            IN  /\ file' = [file EXCEPT !.out = [status |-> "returned", bid |-> r.bid,
                                                 key |-> r.key, err |-> r.err,
                                                 index |-> <<>>]]
                /\ storage' = r.storage
       ELSE LET last == StoreBlock(file.buffer, storage)
                caps == Append(file.caps, [bid |-> last.bid, key |-> last.key])
                r == createHashValidatedBlobFromReaderGenerator(IndexBuffer(caps), last.storage)
            IN  IF last.err # nil
                THEN /\ file' = [file EXCEPT !.out = [NoFileResult EXCEPT
                                                         !.status = "returned",
                                                         !.err = last.err]]
                     /\ storage' = last.storage
                ELSE /\ file' = [file EXCEPT !.caps = caps,
                                             !.out = [status |-> "returned", bid |-> r.bid,
                                                      key |-> r.key, err |-> r.err,
                                                      index |-> IndexBuffer(caps)]]
                     /\ storage' = r.storage
    /\ UNCHANGED <<writers, pl, runs, lastRead, dir>>

(***************************************************************************)
(* The specification of the pipeline over a shared storage.                *)
(***************************************************************************)
EmptyStorage == [id \in {} |-> <<>>]

Init ==
    /\ storage = EmptyStorage
    /\ writers = <<>>
    /\ pl = Idle
    /\ runs = <<>>
    /\ lastRead = NoRead
    /\ dir = [entries |-> <<>>, addErr |-> nil, out |-> NoDirResult]
    /\ file = NewFile

IoErrs == {nil, ErrIO}

Next ==
    \/ \E P \in Plaintexts : \E f1, f2 \in Faults(P) : \E e \in {nil, ErrEncryptor} :
          PipelineCall(P, f1, f2, e)
    \/ \E e \in IoErrs : PipelineNewBlobWriter(e)
    \/ \E e \in IoErrs : PipelineWriteTag(e)
    \/ \E e \in IoErrs : \E n \in 0..MaxLen : PipelineCopy(e, n)
    \/ PipelineFinalize
    \/ PipelineReturn
    \/ \E id \in ClientIds : \E c \in ClientContents : ClientStore(id, c)

Spec == Init /\ [][Next]_vars

\* the port alone, with its readers
NextPort ==
    \/ \E id \in ClientIds : ClientNewBlobWriter(id)
    \/ \E h \in 1..Len(writers) : \E c \in ClientChunks : ClientWrite(h, c)
    \/ \E h \in 1..Len(writers) : ClientFinalize(h)
    \/ \E h \in 1..Len(writers) : ClientCancel(h)
    \/ \E id \in ClientIds : ClientRead(id)

SpecPort == Init /\ [][NextPort]_vars

(***************************************************************************)
(* Properties of the pipeline.                                             *)
(***************************************************************************)
Range(s) == {s[i] : i \in 1..Len(s)}
OwnedBy(k) == {h \in 1..Len(writers) : writers[h].owner = k}

\* C1: a call that fails after its staged writer was opened has cancelled that
\* writer when it returns, returns the error, and has added no blob to the
\* storage; a call that fails before NewBlobWriter succeeded leaves no writer
\* of its own behind, cancelled or finalized, and has added no blob.
C1_CancelOnFailure ==
    \A k \in 1..Len(runs) :
        runs[k].err # nil =>
            IF runs[k].blobWriter = 0
            THEN OwnedBy(k) = {}
            ELSE /\ OwnedBy(k) = {runs[k].blobWriter}
                 /\ LET w == writers[runs[k].blobWriter]
                    IN  /\ w.status = "cancelled"
                        /\ Last(w.log) = "Cancel"
                        /\ "Finalize" \notin Range(w.log)
                        /\ ~w.stored

\* one call failed before its writer was opened and the other one at Finalize
C1_Witness ==
    \E i, j \in 1..Len(runs) :
        /\ runs[i].err # nil /\ runs[i].blobWriter = 0
        /\ runs[j].err = ErrBIDCollision /\ runs[j].blobWriter # 0

\* a run whose producer delivered the whole plaintext in both passes and whose
\* encryptor was created
StoreOf(k) == ~runs[k].fault /\ runs[k].err # ErrEncryptor

\* C2: two runs on the same plaintext return the same (bid, key); when the
\* first succeeded, the Finalize of the second on the same storage is no
\* collision and adds no blob (dedup).
C2_IdempotentStore ==
    \A i, j \in 1..Len(runs) :
        (StoreOf(i) /\ StoreOf(j) /\ runs[i].P = runs[j].P) =>
            /\ runs[i].bid = runs[j].bid
            /\ runs[i].key = runs[j].key
            /\ (i < j /\ runs[i].err = nil) =>
                   /\ runs[j].err # ErrBIDCollision
                   /\ runs[j].blobWriter # 0 => ~writers[runs[j].blobWriter].stored

\* both runs on a non-empty plaintext succeeded, the first one added the blob
C2_Witness ==
    /\ Len(runs) = 2
    /\ StoreOf(1) /\ StoreOf(2)
    /\ runs[1].P = runs[2].P /\ runs[1].P # <<>>
    /\ runs[1].err = nil /\ runs[2].err = nil
    /\ writers[runs[1].blobWriter].stored
    /\ writers[runs[2].blobWriter].status = "finalized"

\* C8: a run in which a read of the producer (or a write to the encryptor)
\* failed returns an error and has added no blob to the storage.
C8_NoSwallowedFailure ==
    \A k \in 1..Len(runs) :
        runs[k].fault =>
            /\ runs[k].err # nil
            /\ runs[k].blobWriter # 0 => ~writers[runs[k].blobWriter].stored

\* the calls on a staged writer come in the order Write(s), Finalize, with no
\* Write after a Finalize, no second Finalize and no Cancel after a successful one
LogInOrder(log) ==
    \A i, j \in 1..Len(log) :
        i < j =>
            /\ ~(log[i] \in {"Finalize", ErrBIDCollision}
                   /\ log[j] \in {"Write", "WriteErr", "Finalize", ErrBIDCollision})
            /\ ~(log[i] = "Finalize" /\ log[j] = "Cancel")

\* C9: the staged bytes of a pipeline writer start with the validation method
\* tag, its calls come in order, and what it finalized is the tag followed by
\* bytes whose hex hash is the id it was opened for; the blob stored is that.
C9_BlobFormat ==
    \A h \in 1..Len(writers) :
        LET w == writers[h]
        IN  w.owner # 0 =>
              /\ LogInOrder(w.log)
              /\ w.staged # <<>> => Head(w.staged) = validationMethodHash
              /\ w.status = "finalized" =>
                    /\ w.staged # <<>>
                    /\ w.bid = EncodeToString(HashSum(Tail(w.staged)))
                    /\ w.log \in {<<"Write", "Write", "Finalize">>, <<"Write", "Finalize">>}
                    /\ Len(w.log) = 2 => Len(w.staged) = 1
                    /\ w.stored => (w.bid \in DOMAIN storage /\ storage[w.bid] = w.staged)

\* a pipeline writer committed a tag followed by a non-empty ciphertext
C9_Witness ==
    \E h \in 1..Len(writers) :
        /\ writers[h].owner # 0
        /\ writers[h].stored
        /\ Len(writers[h].staged) > 1

(***************************************************************************)
(* The directory writer on a storage of its own.                           *)
(***************************************************************************)
NextDir ==
    \/ \E entry \in DirEntries : AddEntry(entry)
    \/ DirFinalize

SpecDir == Init /\ [][NextDir]_vars

(***************************************************************************)
(* The file writer on a storage of its own.                                *)
(***************************************************************************)
NextFile ==
    \/ \E b \in FileChunks : FileWrite(b)
    \/ FileFinalize

SpecFile == Init /\ [][NextFile]_vars

(***************************************************************************)
(* Properties of the directory writer.                                     *)
(***************************************************************************)
\* every order in which the entries of s can be added
Orders(s) == {[i \in 1..Len(s) |-> s[p[i]]] : p \in Permutations(1..Len(s))}

DistinctNames(s) == \A i, j \in 1..Len(s) : i # j => s[i].Name # s[j].Name

Ascending(s) == \A i \in 1..(Len(s) - 1) : StringLess(s[i].Name, s[i + 1].Name)

\* the capability finalizeSimple returns for entries added in the order q
CapabilityOf(q) ==
    LET r == createHashValidatedBlobFromReaderGenerator(DirBuffer(Sort(q)), EmptyStorage)
    IN  <<r.bid, r.key>>

\* C3: entries with distinct names, at most maxSimpleDirEntries of them, are
\* serialized as the type tag, the count and the entries in ascending name
\* order, and every order of adding them gives that buffer and that capability.
C3_DirectoryDeterminism ==
    (dir.out.status = "returned" /\ DistinctNames(dir.out.added)) =>
        /\ Len(dir.out.added) <= maxSimpleDirEntries
        /\ \E sorted \in Orders(dir.out.added) :
              /\ Ascending(sorted)
              /\ dir.out.buffer = <<blobTypeSimpleStaticDir>> \o serializeInt(Len(sorted))
                                     \o serializeAll(sorted)
        /\ \A q \in Orders(dir.out.added) :
              /\ DirBuffer(Sort(q)) = dir.out.buffer
              /\ CapabilityOf(q) = <<dir.out.bid, dir.out.key>>

\* three entries with distinct names, added in descending order, were finalized
C3_Witness ==
    /\ dir.out.status = "returned"
    /\ Len(dir.out.added) = 3
    /\ DistinctNames(dir.out.added)
    /\ \A i \in 1..2 : StringLess(dir.out.added[i + 1].Name, dir.out.added[i].Name)

\* C7: Finalize with more than maxSimpleDirEntries entries returns a result.
C7_SplitReturns ==
    (dir.out.status # "none" /\ Len(dir.out.added) > maxSimpleDirEntries) =>
        dir.out.status = "returned"

\* C10: AddEntry returns nil whatever the names, and a collection of at most
\* maxSimpleDirEntries entries, duplicate names included, is serialized the
\* same for every order of adding it.
C10_DuplicateNames ==
    /\ dir.addErr = nil
    /\ dir.out.status = "returned" =>
          \A q \in Orders(dir.out.added) : DirBuffer(Sort(q)) = dir.out.buffer

(***************************************************************************)
(* Properties of the file writer.                                          *)
(***************************************************************************)
\* hex.DecodeString
DecodeString(h) == [i \in 1..(Len(h) \div 2) |-> h[2 * i - 1] * 16 + h[2 * i]]

\* the decryptor for a key string: the inverse of Encrypt
Decrypt(key, data) ==
    LET keySource == Tail(DecodeString(key))
    IN  [i \in 1..Len(data) |-> (data[i] + 512 - keySource[2] - 13 * i) % 256]

\* the plaintext behind a capability: the stored blob without its validation
\* tag, decrypted
ReadBlob(c) == Decrypt(c.key, Tail(storage[c.bid]))

RECURSIVE BlocksOf(_)
BlocksOf(cs) == IF cs = <<>> THEN <<>> ELSE Tail(ReadBlob(Head(cs))) \o BlocksOf(Tail(cs))

C5_Step ==
    /\ \A id \in DOMAIN storage : id \in DOMAIN storage' /\ storage'[id] = storage[id]
    /\ \A h \in 1..Len(writers) :
          (writers[h].status = "open" /\ writers'[h].status \in {"finalized", "failed"}) =>
              LET w == writers[h]
              IN  IF w.bid \in DOMAIN storage
                  THEN /\ storage' = storage
                       /\ IF storage[w.bid] = w.staged
                          THEN writers'[h].status = "finalized"
                          ELSE /\ writers'[h].status = "failed"
                               /\ Last(writers'[h].log) = ErrBIDCollision
                  ELSE /\ writers'[h].status = "finalized"
                       /\ DOMAIN storage' = DOMAIN storage \cup {w.bid}
                       /\ storage'[w.bid] = w.staged

C5_OneCommitPerId == [][C5_Step]_vars

\* three writers on one id: one committed, one found its content committed,
\* one collided
C5_Witness ==
    \E a, b, c \in 1..Len(writers) :
        /\ writers[a].bid = writers[b].bid /\ writers[b].bid = writers[c].bid
        /\ writers[a].status = "finalized" /\ writers[a].stored
        /\ writers[b].status = "finalized" /\ ~writers[b].stored
        /\ writers[c].status = "failed"

\* a staged writer whose Finalize on id succeeded with content data
Finalized(id, data) ==
    \E h \in 1..Len(writers) :
        /\ writers[h].bid = id
        /\ writers[h].status = "finalized"
        /\ writers[h].staged = data

\* C6: a read of an id fails with ErrBIDNotFound or returns the complete
\* content of a writer whose Finalize on that id succeeded, for the read
\* just made and for any read that could be made now; a cancelled writer
\* has added nothing to the storage.
C6_FinalizeIsCommitPoint ==
    /\ \A id \in ClientIds :
          LET r == NewBlobReader(storage, id)
          IN  IF r.err = nil THEN Finalized(id, r.data)
              ELSE r.err = ErrBIDNotFound /\ ~\E data \in ClientContents : Finalized(id, data)
    /\ lastRead # NoRead =>
          \/ lastRead.result.err = ErrBIDNotFound
          \/ lastRead.result.err = nil /\ Finalized(lastRead.bid, lastRead.result.data)
    /\ \A h \in 1..Len(writers) : writers[h].status = "cancelled" => ~writers[h].stored

\* a read returned the content of a finalized writer while another writer
\* on that id had staged bytes and a third had been cancelled
C6_Witness ==
    /\ lastRead # NoRead
    /\ lastRead.result.err = nil
    /\ \E a, b \in 1..Len(writers) :
          /\ writers[a].bid = lastRead.bid /\ writers[a].status = "open"
          /\ writers[a].staged # <<>> /\ writers[a].staged # lastRead.result.data
          /\ writers[b].bid = lastRead.bid /\ writers[b].status = "cancelled"

====
